---- MODULE Spec2Model ----
(***************************************************************************)
(* A model of api-schema-mapper: the value utilities, the mapping          *)
(* inverter, the normalizer, the denormalizer, the differ and the payload  *)
(* builder, as pure operators over JavaScript value trees, and a state     *)
(* machine whose actions are the calls of the public operations.           *)
(*                                                                         *)
(* JavaScript values are tagged records:                                   *)
(*   [t |-> "undef"]  undefined          [t |-> "null"]   null             *)
(*   [t |-> "num", n |-> n]              [t |-> "bool", b |-> b]           *)
(*   [t |-> "str", s |-> path]           [t |-> "date", ms |-> ms]         *)
(*   [t |-> "obj", kv |-> <<[k |-> key, v |-> value], ...>>]               *)
(*   [t |-> "arr", xs |-> <<value, ...>>]   [t |-> "hole"] an empty slot   *)
(*   [t |-> "nan"]    NaN                                                  *)
(* A record keeps its keys in insertion order, as a JavaScript object      *)
(* does.  A string is the sequence of its dot-separated segments, so that  *)
(* split('.') and `${a}.${b}` are what they are in the code; a segment is  *)
(* [n |-> name, i |-> <<indices>>], the text name[i1][i2]...; the empty    *)
(* string is the one segment with the empty name.                          *)
(***************************************************************************)
EXTENDS Integers, Sequences, FiniteSets, TLC

VARIABLES op, arg, res

vars == <<op, arg, res>>

----------------------------------------------------------------------------
(* Values *)

Undef == [t |-> "undef"]

Null == [t |-> "null"]

Hole == [t |-> "hole"]

Num(n) == [t |-> "num", n |-> n]

\* the number that is not a number
NaN == [t |-> "nan"]

Bool(b) == [t |-> "bool", b |-> b]

Str(p) == [t |-> "str", s |-> p]

Date(ms) == [t |-> "date", ms |-> ms]

Obj(kv) == [t |-> "obj", kv |-> kv]

Arr(xs) == [t |-> "arr", xs |-> xs]

EmptyObj == Obj(<<>>)

\* the one-segment string s, and the segment s[i]
Seg(s) == [n |-> s, i |-> <<>>]

SegIdx(sg, idx) == [n |-> sg.n, i |-> Append(sg.i, idx)]

K(s) == <<Seg(s)>>

\* an entry of a record
E(key, val) == [k |-> key, v |-> val]

\* a read of an empty slot or of undefined gives undefined
Rd(v) == IF v.t = "hole" THEN Undef ELSE v

TypeOf(v) ==
    CASE v.t \in {"undef", "hole"} -> "undefined"
      [] v.t \in {"num", "nan"} -> "number"
      [] v.t = "bool" -> "boolean"
      [] v.t = "str" -> "string"
      [] OTHER -> "object"

IsArray(v) == v.t = "arr"

\* !!v
Truthy(v) ==
    CASE v.t \in {"undef", "hole", "null", "nan"} -> FALSE
      [] v.t = "num" -> v.n # 0
      [] v.t = "bool" -> v.b
      [] v.t = "str" -> v.s # <<Seg("")>>
      [] OTHER -> TRUE

\* a === b for primitives (NaN is === to nothing); two objects are === only
\* when they are one object, which the callers decide
PrimEq(a, b) == a.t # "nan" /\ Rd(a) = Rd(b)

IsPrim(v) == v.t \in {"undef", "hole", "null", "num", "nan", "bool", "str"}

----------------------------------------------------------------------------
(* Own enumerable keys and property access *)

Keys(o) == IF o.t = "obj" THEN [j \in 1..Len(o.kv) |-> o.kv[j].k] ELSE <<>>

Has(o, key) == o.t = "obj" /\ \E j \in 1..Len(o.kv) : o.kv[j].k = key

\* o[key] for a value that is not null or undefined: an own key of a record,
\* an index or 'length' of an array or of a string.  A string's text has a
\* dot between its segments and [d] after a name for each index; the
\* character at an index is read from strings of one character only.  The
\* keys of the model are never names of inherited properties.
Get(o, key) ==
    LET Indices(n) == {i \in 0..(n - 1) : key = K(ToString(i))}
        TextLength(s) ==
            LET RECURSIVE Sum(_)
                Sum(j) == IF j > Len(s) THEN 0
                          ELSE Len(s[j].n) + 3 * Len(s[j].i) + Sum(j + 1)
            IN  Sum(1) + Len(s) - 1
    IN  CASE o.t = "obj" ->
                IF Has(o, key)
                THEN LET j == CHOOSE j \in 1..Len(o.kv) : o.kv[j].k = key
                     IN  Rd(o.kv[j].v)
                ELSE Undef
          [] o.t = "arr" ->
                IF key = K("length") THEN Num(Len(o.xs))
                ELSE IF Indices(Len(o.xs)) # {}
                THEN Rd(o.xs[(CHOOSE i \in Indices(Len(o.xs)) : TRUE) + 1])
                ELSE Undef
          [] o.t = "str" ->
                IF key = K("length") THEN Num(TextLength(o.s))
                ELSE IF Indices(TextLength(o.s)) = {} THEN Undef
                ELSE (CASE TextLength(o.s) = 1 -> o)
          [] OTHER -> Undef

\* o[key] = val on a record
Put(o, key, val) ==
    IF Has(o, key)
    THEN Obj([j \in 1..Len(o.kv) |->
                 IF o.kv[j].k = key THEN E(key, val) ELSE o.kv[j]])
    ELSE Obj(Append(o.kv, E(key, val)))

\* a[idx] = val on an array (idx from 0), leaving empty slots below idx
ArrSet(a, idx, val) ==
    Arr([j \in 1..(IF idx + 1 > Len(a.xs) THEN idx + 1 ELSE Len(a.xs)) |->
            IF j = idx + 1 THEN val
            ELSE IF j <= Len(a.xs) THEN a.xs[j] ELSE Hole])

ArrGet(a, idx) ==
    IF a.t = "arr" /\ idx + 1 <= Len(a.xs) THEN Rd(a.xs[idx + 1]) ELSE Undef

----------------------------------------------------------------------------
(* utils *)

isPlainObject(v) == v.t # "null" /\ TypeOf(v) = "object" /\ ~IsArray(v)

RECURSIVE getNestedValue(_, _)
getNestedValue(obj, path) ==
    IF path = <<>> THEN obj
    ELSE IF obj.t \in {"null", "undef", "hole"} THEN Undef
    ELSE getNestedValue(Get(obj, <<Head(path)>>), Tail(path))

\* setNestedValue that writes at the first key of the path only
setTopLevelValue(obj, path, value) == Put(obj, <<Head(path)>>, value)

RECURSIVE setNestedValue(_, _, _)
setNestedValue(obj, path, value) ==
    IF Len(path) = 1 THEN Put(obj, path, value)
    ELSE LET key == <<Head(path)>>
             cur == Get(obj, key)
             nxt == IF ~Truthy(cur) \/ ~isPlainObject(cur) THEN EmptyObj ELSE cur
         IN  Put(obj, key, setNestedValue(nxt, Tail(path), value))

----------------------------------------------------------------------------
(* utils: invertMapping *)

Ents(o) == IF o.t = "obj" THEN o.kv ELSE <<>>

\* `${a}.${b}`
Dot(a, b) == a \o b

RECURSIVE deepClone(_)

\* a date/time value is an object with no own enumerable key: its clone is {}
deepClone(obj) ==
    IF obj.t = "null" \/ TypeOf(obj) # "object" THEN obj
    ELSE IF IsArray(obj) THEN Arr([j \in 1..Len(obj.xs) |-> deepClone(Rd(obj.xs[j]))])
    ELSE Obj([j \in 1..Len(Ents(obj)) |-> E(obj.kv[j].k, deepClone(obj.kv[j].v))])

RECURSIVE invertLoop(_, _, _), invertNested(_, _, _, _)

\* the inner loop, over the keys of a nested record `value` found under `key`
invertNested(key, value, j, target) ==
    IF j > Len(Ents(value)) THEN target
    ELSE LET nestedKey == value.kv[j].k
             nestedValue == Rd(value.kv[j].v)
             t1 == IF TypeOf(nestedValue) = "string"
                   THEN Put(target, nestedValue.s, Str(Dot(key, nestedKey)))
                   ELSE IF isPlainObject(nestedValue)
                   THEN invertLoop(Obj(<<E(nestedKey, nestedValue)>>), 1,
                                   IF ~Truthy(Get(target, nestedKey))
                                   THEN Put(target, nestedKey, EmptyObj)
                                   ELSE target)
                   ELSE target
         IN  invertNested(key, value, j + 1, t1)

\* invert(source, target), from the j-th key of source on
invertLoop(source, j, target) ==
    IF j > Len(Ents(source)) THEN target
    ELSE LET key == source.kv[j].k
             value == Rd(source.kv[j].v)
             t1 == IF isPlainObject(value)
                   THEN invertNested(key, value, 1, target)
                   ELSE IF TypeOf(value) = "string"
                   THEN Put(target, value.s, Str(key))
                   ELSE target
         IN  invertLoop(source, j + 1, t1)

invertMapping(mapping) == invertLoop(mapping, 1, EmptyObj)

----------------------------------------------------------------------------
(* Caller-supplied hooks.  A transform table maps a form key to the name   *)
(* of a pure transform; a validator is named by what it answers.           *)

Throw(e, msg) == [t |-> "throw", e |-> e, msg |-> msg]

IsThrow(r) == r.t = "throw"

NoTransforms == <<>>

ApplyTransform(name, value, source) ==
    CASE name = "toUndef" -> Undef
      [] name = "inc" -> IF value.t = "num" THEN Num(value.n + 1) ELSE value
      [] OTHER -> value

\* validation(data): {valid, errors}
Validate(name, data) ==
    CASE name = "rejectAll" -> [valid |-> FALSE, errors |-> <<"e1", "e2">>]
      [] name = "rejectEmpty" ->
            IF Ents(data) = <<>>
            THEN [valid |-> FALSE, errors |-> <<"empty">>]
            ELSE [valid |-> TRUE, errors |-> <<>>]
      [] OTHER -> [valid |-> TRUE, errors |-> <<>>]

----------------------------------------------------------------------------
(* normalizer *)

\* the text of the date/time value ms, as toISOString gives it: two segments,
\* for the dot before the milliseconds
IsoString(ms) == <<Seg("2024-01-0" \o ToString(ms) \o "T00:00:00"), Seg("000Z")>>

\* the numeric strings and date strings of the model
NumericStrings == {K(ToString(n)) : n \in 0..9}

NumberOf(s) == CHOOSE n \in 0..9 : s = K(ToString(n))

DateStrings == {IsoString(ms) : ms \in 1..9}

DateOf(s) == CHOOSE ms \in 1..9 : s = IsoString(ms)

\* the strings of the model that hold a number between spaces, and value.trim()
PaddedNumericStrings == {K(" " \o ToString(n)) : n \in 0..9}

Trim(s) ==
    IF s = K(" ") THEN K("")
    ELSE IF s \in PaddedNumericStrings THEN K(ToString(CHOOSE n \in 0..9 : s = K(" " \o ToString(n))))
    ELSE s

\* Infinity: only ever the result of a conversion, never a value of a tree
Infinity == [t |-> "inf"]

\* Number(s), which isNaN(s) tests too: blank text is 0
ToNumber(s) ==
    IF Trim(s) \in NumericStrings THEN Num(NumberOf(Trim(s)))
    ELSE IF Trim(s) = K("") THEN Num(0)
    ELSE IF s = K("Infinity") THEN Infinity
    ELSE NaN

\* Number.isFinite(num)
IsFinite(num) == num.t = "num"

\* a text that /^\d{4}-\d{2}-\d{2}T/ matches and that is no date
InvalidDateString == <<Seg("2024-99-99T")>>

\* /^\d{4}-\d{2}-\d{2}T/.test(s)
DateTimePrefixed(s) == s \in DateStrings \/ s = InvalidDateString

\* !isNaN(new Date(s).getTime())
IsValidDate(s) == s \in DateStrings

\* coerceType without the rule for 'true' and 'false'
coerceTypeNoBoolean(value) ==
    IF value.t = "str" /\ ToNumber(value.s) # NaN /\ Trim(value.s) # K("")
          /\ IsFinite(ToNumber(value.s))
    THEN ToNumber(value.s)
    ELSE IF value.t = "str" /\ DateTimePrefixed(value.s) /\ IsValidDate(value.s)
    THEN Date(DateOf(value.s))
    ELSE value

coerceType(value) ==
    IF value.t = "str" /\ ToNumber(value.s) # NaN /\ Trim(value.s) # K("")
          /\ IsFinite(ToNumber(value.s))
    THEN ToNumber(value.s)
    ELSE IF value = Str(K("true")) THEN Bool(TRUE)
    ELSE IF value = Str(K("false")) THEN Bool(FALSE)
    ELSE IF value.t = "str" /\ DateTimePrefixed(value.s) /\ IsValidDate(value.s)
    THEN Date(DateOf(value.s))
    ELSE value

\* const formData = { ...defaultValues }: a record of its own whose values are
\* those of defaultValues, so a record or a sequence under a key is one object
\* for both.  The calls of normalize work on [formData, defaultValues, aliased]:
\* aliased holds the keys under which formData still has defaultValues' object.
StartForm(defaultValues) ==
    [formData |-> Obj(Ents(defaultValues)),
     defaultValues |-> defaultValues,
     aliased |-> {k \in {defaultValues.kv[j].k : j \in 1..Len(Ents(defaultValues))} :
                    ~IsPrim(Get(defaultValues, k))}]

\* setNestedValue(formData, formKey, value): a write through a record that
\* formData shares with defaultValues changes it for both
WriteNested(st, path, value) ==
    LET key == <<Head(path)>>
        cur == Get(st.formData, key)
        f1 == setNestedValue(st.formData, path, value)
    IN  IF Len(path) > 1 /\ Truthy(cur) /\ isPlainObject(cur)
        THEN [st EXCEPT !.formData = f1,
                        !.defaultValues = IF key \in st.aliased
                                          THEN Put(@, key, Get(f1, key)) ELSE @]
        ELSE [st EXCEPT !.formData = f1, !.aliased = @ \ {key}]

\* formData[formKey] = value
AssignKey(st, key, value) ==
    [st EXCEPT !.formData = Put(@, key, value), !.aliased = @ \ {key}]

RECURSIVE processMapping(_, _, _, _, _), mapItems(_, _, _, _, _)

\* processMapping(source, mappingSchema), from the j-th key of the schema on;
\* st holds formData, the record the calls write to
processMapping(source, mappingSchema, j, options, st) ==
    IF j > Len(Ents(mappingSchema)) THEN st
    ELSE LET apiKey == mappingSchema.kv[j].k
             mappingValue == Rd(mappingSchema.kv[j].v)
             sourceValue == IF source.t \in {"null", "undef", "hole"} THEN Undef
                            ELSE Get(source, apiKey)
             formKey == mappingValue.s
             v1 == IF formKey \in DOMAIN options.transform
                   THEN ApplyTransform(options.transform[formKey], sourceValue, source)
                   ELSE sourceValue
             v2 == IF options.typeCoercion /\ v1 # Null /\ v1 # Undef
                   THEN coerceType(v1) ELSE v1
             s1 == IF TypeOf(mappingValue) = "string"
                   THEN IF v2 # Undef THEN WriteNested(st, formKey, v2)
                        ELSE st
                   ELSE IF isPlainObject(mappingValue)
                   THEN IF isPlainObject(sourceValue)
                        THEN processMapping(sourceValue, mappingValue, 1, options, st)
                        ELSE st
                   ELSE IF IsArray(mappingValue) /\ IsArray(sourceValue)
                   THEN LET itemMapping == ArrGet(mappingValue, 0)
                        IN  AssignKey(mapItems(sourceValue, itemMapping, 1, options, st),
                                apiKey,
                                Arr([n \in 1..Len(sourceValue.xs) |->
                                        IF isPlainObject(itemMapping) THEN EmptyObj
                                        ELSE sourceValue.xs[n]]))
                   ELSE st
         IN  processMapping(source, mappingSchema, j + 1, options, s1)

\* what sourceValue.map's callback does to formData, from the n-th item on
mapItems(sourceValue, itemMapping, n, options, st) ==
    IF n > Len(sourceValue.xs) THEN st
    ELSE mapItems(sourceValue, itemMapping, n + 1, options,
                  IF isPlainObject(itemMapping)
                  THEN processMapping(Rd(sourceValue.xs[n]), itemMapping, 1, options, st)
                  ELSE st)

NormalizeDefaults == [typeCoercion |-> TRUE, defaultValues |-> EmptyObj,
                      transform |-> NoTransforms]

\* normalize that starts from an empty form
normalizeWithoutDefaults(apiData, mapping, options) ==
    processMapping(apiData, mapping, 1, options, StartForm(EmptyObj)).formData

normalize(apiData, mapping, options) ==
    processMapping(apiData, mapping, 1, options, StartForm(options.defaultValues)).formData

\* the caller's defaultValues after normalize returned
defaultValuesAfterNormalize(apiData, mapping, options) ==
    processMapping(apiData, mapping, 1, options, StartForm(options.defaultValues)).defaultValues

----------------------------------------------------------------------------
(* denormalizer *)

RECURSIVE processFormData(_, _, _, _, _)

\* processFormData(source, invertedMapping), from the j-th key of the inverted
\* mapping on; st holds apiPayload, the record the loop writes to, the form
\* keys whose transform the loop has called, and the places where apiPayload
\* holds an object of the form itself: [from |-> its path in the form,
\* at |-> its path in the payload]
processFormData(source, invertedMapping, j, options, st) ==
    IF j > Len(Ents(invertedMapping)) THEN st
    ELSE LET formKey == invertedMapping.kv[j].k
             apiPath == Rd(invertedMapping.kv[j].v)
             value == getNestedValue(source, formKey)
             transformed == formKey \in DOMAIN options.transform
             v1 == IF transformed
                   THEN ApplyTransform(options.transform[formKey], value, source)
                   ELSE value
             called == IF transformed THEN Append(st.called, formKey) ELSE st.called
             shared == IF ~IsPrim(v1) /\ v1 = value
                       THEN st.shared \cup {[from |-> formKey, at |-> apiPath.s]}
                       ELSE st.shared
         IN  IF options.omitUndefined /\ value = Undef
             THEN processFormData(source, invertedMapping, j + 1, options, st)
             ELSE IF options.omitNull /\ value = Null
             THEN processFormData(source, invertedMapping, j + 1, options, st)
             ELSE IF apiPath.t # "str"
             THEN [apiPayload |-> Throw("TypeError", <<"apiPath.includes is not a function">>),
                   called |-> called, shared |-> st.shared]
             ELSE processFormData(source, invertedMapping, j + 1, options,
                     [apiPayload |-> IF Len(apiPath.s) > 1
                                     THEN setNestedValue(st.apiPayload, apiPath.s, v1)
                                     ELSE Put(st.apiPayload, apiPath.s, v1),
                      called |-> called, shared |-> shared])

DenormalizeDefaults == [omitUndefined |-> TRUE, omitNull |-> FALSE,
                        transform |-> NoTransforms]

\* denormalize that keeps null whatever omitNull says
denormalizeKeepingNull(formData, mapping, options) ==
    processFormData(formData, invertMapping(mapping), 1,
                    [options EXCEPT !.omitNull = FALSE],
                    [apiPayload |-> EmptyObj, called |-> <<>>, shared |-> {}]).apiPayload

denormalize(formData, mapping, options) ==
    processFormData(formData, invertMapping(mapping), 1, options,
                    [apiPayload |-> EmptyObj, called |-> <<>>, shared |-> {}]).apiPayload

\* the objects of formData that the payload of a denormalize call holds
sharedWithForm(formData, mapping, options) ==
    processFormData(formData, invertMapping(mapping), 1, options,
                    [apiPayload |-> EmptyObj, called |-> <<>>, shared |-> {}]).shared

\* the form keys whose transform a denormalize call has called, in order
transformCalls(formData, mapping, options) ==
    processFormData(formData, invertMapping(mapping), 1, options,
                    [apiPayload |-> EmptyObj, called |-> <<>>, shared |-> {}]).called

\* denormalizeForPost that keeps the caller's rules of omission
denormalizeForPostOmitting(formData, mapping, options) ==
    denormalize(formData, mapping, options)

denormalizeForPost(formData, mapping, options) ==
    denormalize(formData, mapping,
                [options EXCEPT !.omitUndefined = FALSE, !.omitNull = FALSE])

denormalizeForPatch(formData, mapping, options) ==
    denormalize(formData, mapping,
                [options EXCEPT !.omitUndefined = TRUE, !.omitNull = FALSE])

----------------------------------------------------------------------------
(* differ *)

RECURSIVE JsonIn(_)

\* JSON.stringify(v) for a v inside a record or an array, as the tree whose
\* text it is: two values have the same text iff they have the same tree.
\* A date/time value is written as its text.
JsonIn(v) ==
    CASE v.t = "date" -> Str(IsoString(v.ms))
      [] v.t = "nan" -> Null
      [] v.t = "arr" ->
            Arr([j \in 1..Len(v.xs) |->
                    IF Rd(v.xs[j]) = Undef THEN Null ELSE JsonIn(v.xs[j])])
      [] v.t = "obj" ->
            LET kept == SelectSeq(v.kv, LAMBDA e : Rd(e.v) # Undef)
            IN  Obj([j \in 1..Len(kept) |-> E(kept[j].k, JsonIn(kept[j].v))])
      [] OTHER -> Rd(v)

JsonStringify(v) == JsonIn(v)

isEqual(obj1, obj2) == JsonStringify(obj1) = JsonStringify(obj2)

hasChanges(original, current) == ~isEqual(original, current)

\* Object.assign(obj, value): the own enumerable keys of value, copied
ObjectAssign(obj, value) ==
    LET RECURSIVE Copy(_, _)
        Copy(o, j) == IF j > Len(Ents(value)) THEN o
                      ELSE Copy(Put(o, value.kv[j].k, value.kv[j].v), j + 1)
    IN  Copy(obj, 1)

\* key.match(/^(.+)\[(\d+)\]$/)
ArrayMatch(sg) == Len(sg.i) >= 1 /\ (sg.n # "" \/ Len(sg.i) >= 2)

ArrayKey(sg) == <<[n |-> sg.n, i |-> SubSeq(sg.i, 1, Len(sg.i) - 1)]>>

ArrayIndex(sg) == sg.i[Len(sg.i)]

RECURSIVE setChangeKeys(_, _, _)

\* the loop of setChangePath over keys, and its last assignment
setChangeKeys(current, keys, value) ==
    IF Len(keys) = 1 THEN Put(current, keys, value)
    ELSE LET key == Head(keys)
         IN  IF ArrayMatch(key)
             THEN LET a0 == Get(current, ArrayKey(key))
                      a1 == IF ~Truthy(a0) THEN Arr(<<>>) ELSE a0
                      e0 == ArrGet(a1, ArrayIndex(key))
                      e1 == IF ~Truthy(e0) THEN EmptyObj ELSE e0
                  IN  Put(current, ArrayKey(key),
                          ArrSet(a1, ArrayIndex(key),
                                 setChangeKeys(e1, Tail(keys), value)))
             ELSE LET c0 == Get(current, <<key>>)
                      c1 == IF ~Truthy(c0) THEN EmptyObj ELSE c0
                  IN  Put(current, <<key>>, setChangeKeys(c1, Tail(keys), value))

setChangePath(obj, path, value) ==
    IF path = K("") THEN ObjectAssign(obj, value)
    ELSE setChangeKeys(obj, path, value)

\* KeyPath without the path of the enclosing record
KeyPathOfKey(path, key) == key

\* path ? `${path}.${key}` : key
KeyPath(path, key) == IF path # K("") THEN Dot(path, key) ELSE key

\* path ? `${path}[${i}]` : `[${i}]`
ItemPath(path, idx) ==
    [j \in 1..Len(path) |-> IF j = Len(path) THEN SegIdx(path[j], idx) ELSE path[j]]

\* oldVal === newVal: for primitives by value; `same` tells whether the two
\* arguments of the call are one object (then so are their parts)
StrictEq(oldVal, newVal, same) ==
    IF IsPrim(oldVal) /\ IsPrim(newVal) THEN PrimEq(oldVal, newVal) ELSE same

\* NotComparable without the test of the lengths
NotComparableKinds(oldVal, newVal) == ~IsArray(oldVal)

\* !Array.isArray(oldVal) || oldVal.length !== newVal.length
NotComparable(oldVal, newVal) == ~IsArray(oldVal) \/ Len(oldVal.xs) # Len(newVal.xs)

\* key in obj
In(key, obj) == Has(obj, key)

DiffDefaults == [compareArrays |-> TRUE, deep |-> TRUE, ignoreFields |-> {}]

RECURSIVE computeDiff(_, _, _, _, _, _), diffItems(_, _, _, _, _, _, _),
          diffNewKeys(_, _, _, _, _, _, _), diffOldKeys(_, _, _, _, _)

computeDiff(oldVal, newVal, path, options, same, changes) ==
    IF path \in options.ignoreFields THEN changes
    ELSE IF StrictEq(oldVal, newVal, same) THEN changes
    ELSE IF TypeOf(oldVal) # TypeOf(newVal) THEN setChangePath(changes, path, newVal)
    ELSE IF TypeOf(newVal) # "object" \/ newVal = Null
    THEN IF ~StrictEq(oldVal, newVal, same)
         THEN setChangePath(changes, path, newVal) ELSE changes
    ELSE IF IsArray(newVal)
    THEN IF ~options.compareArrays
         THEN IF JsonStringify(oldVal) # JsonStringify(newVal)
              THEN setChangePath(changes, path, newVal) ELSE changes
         ELSE IF NotComparable(oldVal, newVal)
         THEN setChangePath(changes, path, newVal)
         ELSE diffItems(oldVal, newVal, path, 0, options, same, changes)
    ELSE IF isPlainObject(newVal)
    THEN IF ~isPlainObject(oldVal) THEN setChangePath(changes, path, newVal)
         ELSE diffOldKeys(oldVal, newVal, path, 1,
                 diffNewKeys(oldVal, newVal, path, 1, options, same, changes))
    ELSE changes

\* for (let i = 0; i < newVal.length; i++), from index idx on
diffItems(oldVal, newVal, path, idx, options, same, changes) ==
    IF idx >= Len(newVal.xs) THEN changes
    ELSE diffItems(oldVal, newVal, path, idx + 1, options, same,
            computeDiff(ArrGet(oldVal, idx), ArrGet(newVal, idx),
                        ItemPath(path, idx), options, same, changes))

\* for (const key in newVal), from the j-th key on
diffNewKeys(oldVal, newVal, path, j, options, same, changes) ==
    IF j > Len(Ents(newVal)) THEN changes
    ELSE LET key == newVal.kv[j].k
         IN  diffNewKeys(oldVal, newVal, path, j + 1, options, same,
                computeDiff(Get(oldVal, key), Rd(newVal.kv[j].v),
                            KeyPath(path, key), options, same, changes))

\* for (const key in oldVal): the deleted keys, from the j-th key on
diffOldKeys(oldVal, newVal, path, j, changes) ==
    IF j > Len(Ents(oldVal)) THEN changes
    ELSE LET key == oldVal.kv[j].k
         IN  diffOldKeys(oldVal, newVal, path, j + 1,
                IF ~In(key, newVal)
                THEN setChangePath(changes, KeyPath(path, key), Undef)
                ELSE changes)

\* diff(original, current, options); `same` is whether original and current
\* are one object
diff(original, current, options, same) ==
    computeDiff(original, current, K(""), options, same, EmptyObj)

RECURSIVE traverse(_, _, _, _, _)

\* traverse(oldVal, newVal, path) of getChangedPaths; paths is the list the
\* calls push to, NewKeys and OldKeys are its two loops from the j-th key on
traverse(oldVal, newVal, path, same, paths) ==
    LET RECURSIVE NewKeys(_, _), OldKeys(_, _)
        NewKeys(j, acc) ==
            IF j > Len(Ents(newVal)) THEN acc
            ELSE NewKeys(j + 1,
                         traverse(IF oldVal.t \in {"null", "undef", "hole"} THEN Undef
                                  ELSE Get(oldVal, newVal.kv[j].k),
                                  Rd(newVal.kv[j].v), KeyPath(path, newVal.kv[j].k),
                                  same, acc))
        OldKeys(j, acc) ==
            IF j > Len(Ents(oldVal)) THEN acc
            ELSE OldKeys(j + 1,
                         IF ~In(oldVal.kv[j].k, newVal)
                         THEN Append(acc, KeyPath(path, oldVal.kv[j].k)) ELSE acc)
    IN  IF StrictEq(oldVal, newVal, same) THEN paths
        ELSE IF TypeOf(newVal) # "object" \/ newVal = Null
        THEN IF ~StrictEq(oldVal, newVal, same) THEN Append(paths, path) ELSE paths
        ELSE IF IsArray(newVal)
        THEN IF ~IsArray(oldVal) \/ JsonStringify(oldVal) # JsonStringify(newVal)
             THEN Append(paths, path) ELSE paths
        ELSE IF isPlainObject(newVal)
        THEN IF isPlainObject(oldVal) THEN OldKeys(1, NewKeys(1, paths))
             ELSE NewKeys(1, paths)
        ELSE paths

\* getChangedPaths(original, current); `same` is whether the two are one object
getChangedPaths(original, current, same) ==
    traverse(original, current, K(""), same, <<>>)

----------------------------------------------------------------------------
(* payloadBuilder.  A builder's result is [ret, steps]: ret is the value   *)
(* returned (null is the no-payload sentinel) or the error thrown; steps   *)
(* lists what the call ran, a validator call with its argument.            *)

Step(name, data) == [step |-> name, data |-> data]

\* { ...a, ...b }
Spread(a, b) == ObjectAssign(ObjectAssign(EmptyObj, a), b)

\* errors.join(', ')
Join(errors) == errors

ValidationFailed(result) == Throw("Error", <<"Validation failed: ">> \o Join(result.errors))

PatchDefaults == [transform |-> NoTransforms, validation |-> "none"]

\* buildPatchPayload without the guard on a payload with no key
buildPatchPayloadUnguarded(initialForm, currentForm, mapping, options, same) ==
    IF ~hasChanges(initialForm, currentForm)
    THEN [ret |-> Null, steps |-> <<>>]
    ELSE LET changes == diff(initialForm, currentForm, DiffDefaults, same)
         IN  [ret |-> denormalizeForPatch(changes, mapping,
                         [DenormalizeDefaults EXCEPT !.transform = options.transform]),
              steps |-> <<Step("diff", changes), Step("denormalize", changes)>>]

buildPatchPayload(initialForm, currentForm, mapping, options, same) ==
    IF ~hasChanges(initialForm, currentForm)
    THEN [ret |-> Null, steps |-> <<>>]
    ELSE LET changes == diff(initialForm, currentForm, DiffDefaults, same)
             ran == IF options.validation # "none"
                    THEN <<Step("diff", changes), Step("validation", changes)>>
                    ELSE <<Step("diff", changes)>>
             payload == denormalizeForPatch(changes, mapping,
                            [DenormalizeDefaults EXCEPT !.transform = options.transform])
         IN  IF options.validation # "none"
                /\ ~Validate(options.validation, changes).valid
             THEN [ret |-> ValidationFailed(Validate(options.validation, changes)),
                   steps |-> ran]
             ELSE IF IsThrow(payload)
             THEN [ret |-> payload, steps |-> Append(ran, Step("denormalize", changes))]
             ELSE [ret |-> IF Len(Keys(payload)) > 0 THEN payload ELSE Null,
                   steps |-> Append(ran, Step("denormalize", changes))]

PostDefaults == [transform |-> NoTransforms, validation |-> "none",
                 defaults |-> EmptyObj]

buildPostPayload(formData, mapping, options) ==
    LET completeData == Spread(options.defaults, formData)
        ran == IF options.validation # "none"
               THEN <<Step("validation", completeData)>> ELSE <<>>
    IN  IF options.validation # "none"
           /\ ~Validate(options.validation, completeData).valid
        THEN [ret |-> ValidationFailed(Validate(options.validation, completeData)),
              steps |-> ran]
        ELSE [ret |-> denormalizeForPost(completeData, mapping,
                         [DenormalizeDefaults EXCEPT !.transform = options.transform]),
              steps |-> Append(ran, Step("denormalize", completeData))]

buildPutPayload(formData, mapping, options) ==
    buildPostPayload(formData, mapping, options)

\* fields is the sequence of the names asked for
buildPartialPayload(formData, fields, mapping, options) ==
    LET RECURSIVE Pick(_, _)
        Pick(partialData, j) ==
            IF j > Len(fields) THEN partialData
            ELSE Pick(IF Has(formData, fields[j])
                      THEN Put(partialData, fields[j], Get(formData, fields[j]))
                      ELSE partialData, j + 1)
    IN  denormalize(Pick(EmptyObj, 1), mapping, options)

----------------------------------------------------------------------------
(* Mapper *)

MapperOptionDefaults == [typeCoercion |-> TRUE, omitUndefined |-> TRUE,
                         omitNull |-> FALSE, compareArrays |-> TRUE]

\* { ...a, ...b } for the records of options and of configurations, which
\* are functions from names
SpreadRecord(a, b) ==
    [k \in DOMAIN a \cup DOMAIN b |-> IF k \in DOMAIN b THEN b[k] ELSE a[k]]

\* new Mapper(config): config.formToApi is null or a record; config.options
\* holds the options the caller names
Mapper(config) ==
    IF Len(Keys(config.apiToForm)) = 0
    THEN Throw("Error", <<"Mapper requires apiToForm mapping configuration">>)
    ELSE [t |-> "mapper",
          apiToFormMapping |-> config.apiToForm,
          formToApiMapping |-> IF config.formToApi # Null THEN config.formToApi
                               ELSE invertMapping(config.apiToForm),
          transforms |-> config.transforms,
          defaults |-> config.defaults,
          validator |-> config.validator,
          options |-> SpreadRecord(MapperOptionDefaults, config.options)]

MapperNormalize(m, apiData) ==
    normalize(apiData, m.apiToFormMapping,
              [typeCoercion |-> m.options.typeCoercion,
               defaultValues |-> m.defaults,
               transform |-> m.transforms])

MapperDenormalize(m, formData) ==
    denormalize(formData, m.apiToFormMapping,
                [omitUndefined |-> m.options.omitUndefined,
                 omitNull |-> m.options.omitNull,
                 transform |-> m.transforms])

MapperDiff(m, original, current, same) ==
    diff(original, current,
         [DiffDefaults EXCEPT !.compareArrays = m.options.compareArrays], same)

MapperHasChanges(m, original, current) == hasChanges(original, current)

MapperBuildPatch(m, initialForm, currentForm, same) ==
    buildPatchPayload(initialForm, currentForm, m.apiToFormMapping,
                      [transform |-> m.transforms, validation |-> m.validator], same)

MapperBuildPost(m, formData) ==
    buildPostPayload(formData, m.apiToFormMapping,
                     [transform |-> m.transforms, validation |-> m.validator,
                      defaults |-> m.defaults])

MapperBuildPut(m, formData) ==
    buildPutPayload(formData, m.apiToFormMapping,
                    [transform |-> m.transforms, validation |-> m.validator,
                     defaults |-> m.defaults])

MapperBuildPartial(m, formData, fields) ==
    buildPartialPayload(formData, fields, m.apiToFormMapping,
                        [DenormalizeDefaults EXCEPT !.transform = m.transforms])

\* what this.defaults holds after normalize(apiData) returned
MapperDefaultsAfterNormalize(m, apiData) ==
    defaultValuesAfterNormalize(apiData, m.apiToFormMapping,
        [typeCoercion |-> m.options.typeCoercion,
         defaultValues |-> m.defaults,
         transform |-> m.transforms])

\* clone(config): config names the overrides
MapperClone(m, config) ==
    Mapper(SpreadRecord([apiToForm |-> m.apiToFormMapping,
                         formToApi |-> m.formToApiMapping,
                         transforms |-> m.transforms,
                         defaults |-> m.defaults,
                         validator |-> m.validator,
                         options |-> m.options], config))

----------------------------------------------------------------------------
(* A handle and the objects it shares with its caller.  The heap maps the  *)
(* name of an object to what it holds now; a field that holds an object    *)
(* holds its name, so two fields with one name are one object.             *)

\* new Mapper(config) on the caller's objects apiToForm, defaults and
\* transforms: the handle keeps the caller's objects and makes two of its own
NewHandle(config) ==
    [heap |-> [apiToForm |-> config.apiToForm, defaults |-> config.defaults,
               transforms |-> config.transforms,
               formToApi |-> Mapper(config).formToApiMapping,
               options |-> Mapper(config).options,
               xApiToForm |-> Undef, xFormToApi |-> Undef, xDefaults |-> Undef,
               xTransforms |-> Undef, xOptions |-> Undef],
     config |-> [apiToForm |-> "apiToForm", defaults |-> "defaults",
                 transforms |-> "transforms"],
     handle |-> [apiToFormMapping |-> "apiToForm", formToApiMapping |-> "formToApi",
                 transforms |-> "transforms", defaults |-> "defaults",
                 validator |-> config.validator, options |-> "options"]]

\* the handle's fields, by value
HandleView(w) ==
    [t |-> "mapper",
     apiToFormMapping |-> w.heap[w.handle.apiToFormMapping],
     formToApiMapping |-> w.heap[w.handle.formToApiMapping],
     transforms |-> w.heap[w.handle.transforms],
     defaults |-> w.heap[w.handle.defaults],
     validator |-> w.handle.validator,
     options |-> w.heap[w.handle.options]]

\* getConfig that hands out the handle's own objects
getConfigShared(w) ==
    [heap |-> w.heap,
     ret |-> [apiToForm |-> w.handle.apiToFormMapping,
              formToApi |-> w.handle.formToApiMapping,
              transforms |-> w.handle.transforms,
              defaults |-> w.handle.defaults,
              options |-> w.handle.options]]

\* getConfig(): the heap with the five objects it makes, and the names of them
getConfig(w) ==
    [heap |-> [w.heap EXCEPT
                 !.xApiToForm = deepClone(w.heap[w.handle.apiToFormMapping]),
                 !.xFormToApi = deepClone(w.heap[w.handle.formToApiMapping]),
                 !.xTransforms = w.heap[w.handle.transforms],
                 !.xDefaults = deepClone(w.heap[w.handle.defaults]),
                 !.xOptions = w.heap[w.handle.options]],
     ret |-> [apiToForm |-> "xApiToForm", formToApi |-> "xFormToApi",
              transforms |-> "xTransforms", defaults |-> "xDefaults",
              options |-> "xOptions"]]

----------------------------------------------------------------------------
(* The inputs of the calls *)

MaxNum == 2

MaxDepth == 3

\* the calls of one session on a handle, its construction included
MaxSteps == 3

Nums == {Num(n) : n \in 1..MaxNum}

RECURSIVE Chain(_, _, _)

\* the entries of a record that holds leafKey |-> leafVal under d - 1 nested
\* records k2, k3, ...; an absent leaf value leaves the key out
Chain(d, leafKey, leafVal) ==
    IF d = 1 THEN (IF leafVal = Undef THEN <<>> ELSE <<E(leafKey, leafVal)>>)
    ELSE <<E(K("k" \o ToString(d)), Obj(Chain(d - 1, leafKey, leafVal)))>>

\* mapping trees with unique target names, one leaf at the top and one under
\* d - 1 nested records
RoundTripMapping(d) ==
    Obj(<<E(K("user_name"), Str(K("username")))>>
        \o Chain(d, K("email_address"), Str(K("email"))))

LeafValues == {Undef, Null, Str(K("x")), Obj(<<E(K("c"), Num(1))>>)} \cup Nums

\* a source tree for RoundTripMapping(d); `broken` puts a scalar where the
\* outermost nested record is expected
RoundTripSource(d, v1, v2, broken) ==
    Obj((IF v1 = Undef THEN <<>> ELSE <<E(K("user_name"), v1)>>)
        \o (IF broken THEN <<E(K("k" \o ToString(d)), Num(1))>>
            ELSE Chain(d, K("email_address"), v2))
        \o <<E(K("extra"), Num(1))>>)

\* form values of the mapped field t and of the field u
TValues == {Null, NaN, Date(1), Date(2), Str(IsoString(1)),
            Arr(<<Num(1), Num(1)>>), Arr(<<Num(1), Num(2)>>)} \cup Nums

UValues == {Num(1), Num(2)}

\* the records over the keys in `first` then `second` order, each key present
\* or not
Forms2(k1, V1, k2, V2) ==
    {EmptyObj}
    \cup {Obj(<<E(k1, v)>>) : v \in V1}
    \cup {Obj(<<E(k2, w)>>) : w \in V2}
    \cup {Obj(<<E(k1, v), E(k2, w)>>) : v \in V1, w \in V2}

PatchInitials == Forms2(K("t"), TValues, K("u"), UValues)

PatchCurrents == PatchInitials
    \cup {Obj(<<E(K("u"), w), E(K("t"), v)>>) : v \in TValues, w \in UValues}

\* mapping trees of the payload builders: t mapped under d - 1 nested records
\* and u unmapped, or t and u both mapped
\* configurations: every mapping with the default options, with and without
\* a validator; and the options compareArrays and omitNull set otherwise
PatchConfigs ==
  LET PatchMappings ==
          {Obj(Chain(d, K("x"), Str(K("t")))) : d \in 1..MaxDepth}
          \cup {Obj(<<E(K("user_name"), Str(K("t"))),
                      E(K("contact"), Obj(<<E(K("email_address"), Str(K("u")))>>))>>)}
      Config(mapping, validator, options) ==
          [apiToForm |-> mapping, formToApi |-> Null, transforms |-> NoTransforms,
           defaults |-> EmptyObj, validator |-> validator, options |-> options]
  IN
    {Config(m, v, MapperOptionDefaults) :
        m \in PatchMappings, v \in {"none", "rejectAll"}}
    \cup {Config(m, "none", [MapperOptionDefaults EXCEPT !.compareArrays = ca,
                                                        !.omitNull = on]) :
            m \in {Obj(Chain(1, K("x"), Str(K("t"))))},
            ca \in BOOLEAN, on \in BOOLEAN}

\* value trees of the differ: scalars, sequences, records, records in
\* sequences and in records, with both orders of two keys
EntryC == E(K("c"), Num(1))

EntryD == E(K("d"), Num(1))

AValues ==
    {Null} \cup Nums
    \cup {Arr(<<Num(1)>>), Arr(<<Num(1), Num(1)>>), Arr(<<Num(1), Num(2)>>)}
    \cup {Obj(<<EntryC>>), Obj(<<E(K("c"), Num(2))>>), Obj(<<EntryC, EntryD>>), Obj(<<EntryD, EntryC>>),
          Obj(<<E(K("c"), Obj(<<EntryD>>))>>), Obj(<<E(K("c"), EmptyObj)>>)}
    \cup {Arr(<<Obj(<<EntryC>>)>>), Arr(<<Obj(<<E(K("c"), Num(2))>>)>>),
          Arr(<<Obj(<<EntryC, EntryD>>)>>), Arr(<<Obj(<<EntryD, EntryC>>)>>)}
    \cup {Obj(<<E(K("c"), Arr(<<Num(1)>>))>>),
          Obj(<<E(K("c"), Arr(<<Num(1), Num(2)>>))>>)}

BValues == {Num(1), Num(2), NaN}

DiffOriginals == Forms2(K("a"), AValues, K("b"), BValues)

DiffCurrents == DiffOriginals
    \cup {Obj(<<E(K("b"), w), E(K("a"), v)>>) : v \in AValues, w \in BValues}

DiffOptions ==
    {[DiffDefaults EXCEPT !.ignoreFields = ig] :
        ig \in {{}, {K("a")}, {K("b")}, {<<Seg("a"), Seg("c")>>},
                {<<SegIdx(Seg("a"), 0)>>}}}
    \cup {[DiffDefaults EXCEPT !.compareArrays = FALSE]}

\* source values of a mapped leaf: absent, null, numbers, a boolean, a record,
\* and strings of every kind coerceType tells apart
NormValues ==
    LET NormStrings == {K("x"), K("1"), K(" 1"), K(""), K(" "), K("Infinity"), K("true"),
                        K("false"), K("TRUE"), IsoString(1), InvalidDateString}
    IN  {Undef, Null, Bool(TRUE), Obj(<<E(K("c"), Num(1))>>)} \cup Nums
            \cup {Str(t) : t \in NormStrings}

\* a mapping whose target is a path into a nested record of the form
PathTargetMapping == Obj(<<E(K("user_name"), Str(<<Seg("profile"), Seg("name")>>))>>)

Item(n) == Obj(<<E(K("id"), Num(n)), E(K("name"), Str(K("x")))>>)

\* the pairs of a mapping and a source tree passed to normalize; ArrayMapping
\* is a mapping with an array-form leaf
NormCalls ==
  LET ArrayMapping ==
          Obj(<<E(K("user_name"), Str(K("username"))),
                E(K("items"), Arr(<<Obj(<<E(K("id"), Str(K("id"))),
                                          E(K("name"), Str(K("name")))>>)>>))>>)
      ItemsValues ==
          {Undef, Null, Num(1), Str(K("x")), Item(1), Arr(<<>>), Arr(<<Item(1)>>),
           Arr(<<Item(1), Item(2)>>), Arr(<<Item(2), Obj(<<E(K("id"), Num(1))>>)>>)}
  IN
    {[mapping |-> RoundTripMapping(d), x |-> RoundTripSource(d, v1, v2, FALSE)] :
        d \in 1..MaxDepth, v1 \in NormValues, v2 \in NormValues}
    \cup {[mapping |-> RoundTripMapping(d), x |-> RoundTripSource(d, v1, Undef, TRUE)] :
        d \in 1..MaxDepth, v1 \in NormValues}
    \cup {[mapping |-> PathTargetMapping, x |-> RoundTripSource(1, v1, Undef, FALSE)] :
        v1 \in NormValues}
    \cup {[mapping |-> ArrayMapping,
           x |-> Obj((IF v1 = Undef THEN <<>> ELSE <<E(K("user_name"), v1)>>)
                     \o (IF it = Undef THEN <<>> ELSE <<E(K("items"), it)>>))] :
        v1 \in {Undef, Str(K("x"))}, it \in ItemsValues}

\* default form values: none, top-level ones, and a nested record
NormDefaultValues ==
    {EmptyObj,
     Obj(<<E(K("username"), Str(K("anonymous"))), E(K("email"), Str(K("none"))),
           E(K("role"), Str(K("user")))>>),
     Obj(<<E(K("profile"), Obj(<<E(K("name"), Str(K("anonymous"))),
                                 E(K("age"), Num(1))>>))>>)}

\* forms and defaults of the builders of full payloads: the targets username
\* and email, each absent, undefined, null or a value
PostForms ==
    LET PostValues == {Undef, Null, Str(K("x")), Obj(<<E(K("c"), Num(1))>>)} \cup Nums
    IN  Forms2(K("username"), PostValues, K("email"), PostValues)

PostDefaultValues ==
    {EmptyObj,
     Obj(<<E(K("email"), Null)>>),
     Obj(<<E(K("username"), Str(K("anonymous"))), E(K("email"), Str(K("none"))),
           E(K("role"), Str(K("user")))>>)}

\* configurations of a handle: a mapping with a nested leaf or with a target
\* path, the former also with an explicit inverse whose paths are not the
\* derived ones; defaults with top-level values or with a nested record that
\* holds a date/time value, and options
HandleConfigs ==
    LET FlatDefaults ==
            Obj(<<E(K("username"), Str(K("anonymous"))), E(K("role"), Str(K("user")))>>)
        NestedDefaults ==
            Obj(<<E(K("profile"), Obj(<<E(K("name"), Str(K("anonymous"))),
                                        E(K("since"), Date(1))>>))>>)
        NoOptions == <<>>
        ExplicitInverse ==
            Obj(<<E(K("username"), Str(K("login"))),
                  E(K("email"), Str(<<Seg("contact"), Seg("mail")>>))>>)
    IN  {[apiToForm |-> m.apiToForm, formToApi |-> m.formToApi,
          transforms |-> NoTransforms,
          defaults |-> d, validator |-> "none", options |-> o] :
            m \in {[apiToForm |-> RoundTripMapping(2), formToApi |-> Null],
                   [apiToForm |-> PathTargetMapping, formToApi |-> Null],
                   [apiToForm |-> RoundTripMapping(2), formToApi |-> ExplicitInverse]},
            d \in {FlatDefaults, NestedDefaults},
            o \in {NoOptions, [typeCoercion |-> FALSE, omitNull |-> TRUE]}}

\* the forms passed to a handle
HandleForms ==
    {Obj(<<E(K("username"), Str(K("x"))), E(K("email"), Null)>>),
     Obj(<<E(K("profile"), Obj(<<E(K("name"), Str(K("y")))>>))>>)}

RECURSIVE Mutated(_, _)

\* the trees a caller makes of `tree` by one assignment of v, at any depth
Mutated(tree, v) ==
    UNION {LET e == tree.kv[j]
               subs == IF e.v.t = "obj" /\ Len(e.v.kv) > 0 THEN Mutated(e.v, v)
                       ELSE {v}
           IN  {Obj([i \in 1..Len(tree.kv) |->
                        IF i = j THEN E(e.k, w) ELSE tree.kv[i]]) : w \in subs} :
           j \in 1..Len(Ents(tree))}

\* what one assignment by the caller makes of the object named `name`: a
\* tree, a table of transforms or a record of options
MutatedObject(name, content) ==
    IF name \in {"options", "xOptions"}
    THEN {[content EXCEPT !.omitNull = ~@], [content EXCEPT !.typeCoercion = ~@]}
    ELSE IF name \in {"transforms", "xTransforms"}
    THEN {SpreadRecord(content, [k \in {K("username")} |-> "toUndef"])}
    ELSE Mutated(content, Str(K("changed")))

\* trees read by path: under the key a a scalar, a string, a sequence or a
\* record, with null, a record or a sequence below it
PathTrees ==
    {Obj(<<E(K("a"), v)>>) :
        v \in {Null, Num(1), Str(K("x")), Arr(<<Str(K("x"))>>), Arr(<<Num(1), Num(2)>>),
               Obj(<<E(K("b"), Null)>>), Obj(<<E(K("b"), Obj(<<E(K("c"), Num(1))>>))>>),
               Obj(<<E(K("b"), Arr(<<Num(1)>>)), E(K("c"), Str(K("x")))>>)}}

RECURSIVE MappingTrees(_, _)

\* mapping trees at most d records deep over the keys a, b, c, each key absent,
\* a string leaf or (the key a) a nested tree; a leaf's target name is p
\* followed by the keys that lead to it, so no two leaves share a target
MappingTrees(d, p) ==
    LET Opt(k, nest) ==
            {<<>>, <<E(K(k), Str(K(p \o k)))>>}
            \cup (IF nest /\ d > 1
                  THEN {<<E(K(k), m)>> : m \in MappingTrees(d - 1, p \o k)}
                  ELSE {})
    IN  {Obj(x \o y \o z) :
            x \in Opt("a", TRUE), y \in Opt("b", FALSE), z \in Opt("c", FALSE)}

\* one object passed twice is the same value; two objects may be equal too
Sames(x, y) == IF x = y THEN BOOLEAN ELSE {FALSE}

----------------------------------------------------------------------------
(* The state machine: a caller makes one call at a time.  op is the last   *)
(* operation called, arg its inputs and res what the calls returned.       *)

Idle == [t |-> "none"]

Init == op = "idle" /\ arg = Idle /\ res = Idle

\* normalize(x, mapping, {typeCoercion})
Normalize ==
    /\ op = "idle"
    /\ \E d \in 1..MaxDepth, v1 \in LeafValues, v2 \in LeafValues,
          broken \in BOOLEAN, tc \in BOOLEAN :
          /\ broken => v2 = Undef
          /\ arg' = [x |-> RoundTripSource(d, v1, v2, broken),
                     mapping |-> RoundTripMapping(d), typeCoercion |-> tc]
          /\ res' = [form |-> normalize(arg'.x, arg'.mapping,
                                 [NormalizeDefaults EXCEPT !.typeCoercion = tc])]
    /\ op' = "normalize"

\* denormalize(form, mapping) on the form normalize returned
Denormalize ==
    /\ op = "normalize"
    /\ op' = "denormalize"
    /\ res' = [form |-> res.form,
               payload |-> denormalize(res.form, arg.mapping, DenormalizeDefaults)]
    /\ UNCHANGED arg

\* handle.buildPatch(initial, current)
BuildPatch ==
    /\ op = "idle"
    /\ \E cfg \in PatchConfigs, i \in PatchInitials, c \in PatchCurrents :
         \E same \in Sames(i, c) :
          /\ arg' = [config |-> cfg, initial |-> i, current |-> c, same |-> same]
          /\ res' = [patch |-> MapperBuildPatch(Mapper(cfg), i, c, same)]
    /\ op' = "buildPatch"

\* handle.diff(initial, current) on the forms of the buildPatch call
DiffForms ==
    /\ op = "buildPatch"
    /\ op' = "diffForms"
    /\ res' = [patch |-> res.patch,
               changes |-> MapperDiff(Mapper(arg.config), arg.initial, arg.current,
                                      arg.same)]
    /\ UNCHANGED arg

\* handle.denormalize(changes) on the change tree handle.diff returned
DenormalizeChanges ==
    /\ op = "diffForms"
    /\ op' = "denormalizeChanges"
    /\ res' = [patch |-> res.patch, changes |-> res.changes,
               payload |-> MapperDenormalize(Mapper(arg.config), res.changes)]
    /\ UNCHANGED arg

\* diff(original, current, options)
Diff ==
    /\ op = "idle"
    /\ \E o \in DiffOriginals, c \in DiffCurrents, opts \in DiffOptions :
         \E same \in Sames(o, c) :
          /\ arg' = [original |-> o, current |-> c, options |-> opts, same |-> same]
          /\ res' = [changes |-> diff(o, c, opts, same)]
    /\ op' = "diff"

\* the caller takes the result
Return ==
    /\ op # "idle"
    /\ op' = "idle" /\ arg' = Idle /\ res' = Idle

\* normalize(apiData, mapping, {typeCoercion, defaultValues})
NormalizeCall ==
    /\ op = "idle"
    /\ \E c \in NormCalls, tc \in BOOLEAN, dv \in NormDefaultValues :
          /\ arg' = [x |-> c.x, mapping |-> c.mapping, typeCoercion |-> tc,
                     defaultValues |-> dv]
          /\ res' = [form |-> normalize(c.x, c.mapping,
                                 [NormalizeDefaults EXCEPT !.typeCoercion = tc,
                                                           !.defaultValues = dv])]
    /\ op' = "normalizeCall"

NextNormalize == NormalizeCall \/ Return

SpecNormalize == Init /\ [][NextNormalize]_vars

\* buildPostPayload(formData, mapping, {defaults})
BuildPost ==
    /\ op = "idle"
    /\ \E d \in 1..MaxDepth, f \in PostForms, dv \in PostDefaultValues :
          /\ arg' = [formData |-> f, mapping |-> RoundTripMapping(d), defaults |-> dv]
          /\ res' = [payload |-> buildPostPayload(f, RoundTripMapping(d),
                                    [PostDefaults EXCEPT !.defaults = dv]).ret]
    /\ op' = "buildPost"

\* buildPutPayload(formData, mapping, {defaults})
BuildPut ==
    /\ op = "idle"
    /\ \E d \in 1..MaxDepth, f \in PostForms, dv \in PostDefaultValues :
          /\ arg' = [formData |-> f, mapping |-> RoundTripMapping(d), defaults |-> dv]
          /\ res' = [payload |-> buildPutPayload(f, RoundTripMapping(d),
                                    [PostDefaults EXCEPT !.defaults = dv]).ret]
    /\ op' = "buildPut"

\* denormalize(formData, mapping, options), with no transform, with one that
\* answers undefined and with one that adds 1
DenormalizeForm ==
    /\ op = "idle"
    /\ \E d \in 1..MaxDepth, f \in PostForms, ou \in BOOLEAN, on \in BOOLEAN :
          \E tr \in {NoTransforms, [k \in {K("username")} |-> "toUndef"],
                      [k \in {K("username"), K("email")} |-> "inc"]} :
              LET options == [omitUndefined |-> ou, omitNull |-> on, transform |-> tr]
              IN  /\ arg' = [formData |-> f, mapping |-> RoundTripMapping(d),
                             defaults |-> EmptyObj, options |-> options]
                  /\ res' = [payload |-> denormalize(f, RoundTripMapping(d), options),
                             calls |-> transformCalls(f, RoundTripMapping(d), options)]
    /\ op' = "denormalizeForm"

\* the caller assigns into the payload that denormalize returned: a new key
\* of the payload, or the key c of a record that the payload holds; a record
\* that is an object of the form changes for the form as well
MutatePayload ==
    /\ op = "denormalizeForm"
    /\ ~IsThrow(res.payload)
    /\ \/ /\ res' = [res EXCEPT !.payload = Put(@, K("added"), Num(1))]
          /\ UNCHANGED arg
       \/ \E sh \in sharedWithForm(arg.formData, arg.mapping, arg.options) :
             LET mutated == Put(getNestedValue(arg.formData, sh.from), K("c"), Num(2))
             IN  /\ res' = [res EXCEPT !.payload = setNestedValue(@, sh.at, mutated)]
                 /\ arg' = [arg EXCEPT !.formData = setNestedValue(@, sh.from, mutated)]
    /\ op' = "mutatePayload"

NextPost == BuildPost \/ BuildPut \/ DenormalizeForm \/ MutatePayload \/ Return

SpecPost == Init /\ [][NextPost]_vars

\* handle = new Mapper(config); arg holds the heap and the handle, what the
\* handle held right after construction, and the names of the objects that
\* getConfig returned
Construct ==
    /\ op = "idle"
    /\ \E cfg \in HandleConfigs :
          arg' = [world |-> NewHandle(cfg), first |-> HandleView(NewHandle(cfg)),
                  exported |-> {}, steps |-> 1]
    /\ res' = Idle
    /\ op' = "construct"

\* a handle exists and the session goes on
InSession ==
    /\ op \in {"construct", "mutateConfig", "mutateExported", "handleNormalize",
               "handleDenormalize", "handleBuildPartial", "handleBuild", "getConfig",
               "clone"}
    /\ arg.steps < MaxSteps

\* the caller assigns into an object it passed to the constructor, or
\* assigns to a field of the config object itself
MutateConfig ==
    /\ InSession
    /\ \E field \in DOMAIN arg.world.config :
          \/ /\ arg.world.config[field] # "none"
             /\ \E c \in MutatedObject(arg.world.config[field],
                                        arg.world.heap[arg.world.config[field]]) :
                   arg' = [arg EXCEPT !.world.heap[arg.world.config[field]] = c,
                                      !.steps = @ + 1]
          \/ arg' = [arg EXCEPT !.world.config[field] = "none", !.steps = @ + 1]
    /\ res' = Idle
    /\ op' = "mutateConfig"

\* the caller assigns into an object that getConfig returned
MutateExported ==
    /\ InSession
    /\ \E name \in arg.exported :
          \E c \in MutatedObject(name, arg.world.heap[name]) :
              arg' = [arg EXCEPT !.world.heap[name] = c, !.steps = @ + 1]
    /\ res' = Idle
    /\ op' = "mutateExported"

\* handle.normalize(apiData)
HandleNormalize ==
    /\ InSession
    /\ \E x \in {EmptyObj, RoundTripSource(2, Str(K("x")), Num(1), FALSE)} :
          /\ res' = [input |-> x, out |-> MapperNormalize(HandleView(arg.world), x)]
          /\ arg' = [arg EXCEPT
                       !.world.heap[arg.world.handle.defaults] =
                           MapperDefaultsAfterNormalize(HandleView(arg.world), x),
                       !.steps = @ + 1]
    /\ op' = "handleNormalize"

\* handle.denormalize(formData)
HandleDenormalize ==
    /\ InSession
    /\ \E f \in HandleForms :
          res' = [input |-> f, out |-> MapperDenormalize(HandleView(arg.world), f)]
    /\ arg' = [arg EXCEPT !.steps = @ + 1]
    /\ op' = "handleDenormalize"

\* handle.buildPartial(formData, fields)
HandleBuildPartial ==
    /\ InSession
    /\ \E f \in HandleForms :
          \E fields \in {<<K("username")>>, <<K("email")>>, <<K("username"), K("email")>>,
                         <<K("email"), K("missing")>>} :
              res' = [input |-> f, fields |-> fields,
                      out |-> MapperBuildPartial(HandleView(arg.world), f, fields)]
    /\ arg' = [arg EXCEPT !.steps = @ + 1]
    /\ op' = "handleBuildPartial"

\* handle.buildPost(formData) and handle.buildPatch({}, formData)
HandleBuild ==
    /\ InSession
    /\ \E f \in HandleForms :
          res' = [input |-> f,
                  post |-> MapperBuildPost(HandleView(arg.world), f).ret,
                  patch |-> MapperBuildPatch(HandleView(arg.world), EmptyObj, f, FALSE).ret]
    /\ arg' = [arg EXCEPT !.steps = @ + 1]
    /\ op' = "handleBuild"

\* handle.getConfig()
GetConfig ==
    /\ InSession
    /\ arg' = [arg EXCEPT !.world.heap = getConfig(arg.world).heap,
                          !.exported = {getConfig(arg.world).ret[f] :
                                           f \in DOMAIN getConfig(arg.world).ret},
                          !.steps = @ + 1]
    /\ res' = [ret |-> getConfig(arg.world).ret]
    /\ op' = "getConfig"

\* handle.clone(overrides)
Clone ==
    /\ InSession
    /\ \E ov \in {<<>>,
                  [defaults |-> Obj(<<E(K("username"), Str(K("guest")))>>)],
                  [options |-> [omitNull |-> FALSE]],
                  [defaults |-> Obj(<<E(K("username"), Str(K("guest")))>>),
                   options |-> [compareArrays |-> FALSE]]} :
          res' = [overrides |-> ov, clone |-> MapperClone(HandleView(arg.world), ov)]
    /\ arg' = [arg EXCEPT !.steps = @ + 1]
    /\ op' = "clone"

NextHandle ==
    \/ Construct \/ MutateConfig \/ MutateExported \/ HandleNormalize
    \/ HandleDenormalize \/ HandleBuildPartial \/ HandleBuild \/ GetConfig \/ Clone
    \/ Return

SpecHandle == Init /\ [][NextHandle]_vars

\* the sessions in which the caller only calls the handle
NextHandleCalls ==
    \/ Construct \/ HandleNormalize \/ HandleDenormalize \/ HandleBuildPartial
    \/ HandleBuild \/ GetConfig \/ Clone \/ Return

SpecHandleCalls == Init /\ [][NextHandleCalls]_vars

\* getNestedValue(obj, path), for the paths of at most MaxDepth segments
GetNestedValue ==
    /\ op = "idle"
    /\ \E obj \in PathTrees, n \in 1..MaxDepth :
          \E path \in [1..n -> {Seg("a"), Seg("b"), Seg("c"), Seg("0"), Seg("length")}] :
              /\ arg' = [obj |-> obj, path |-> path]
              /\ res' = [value |-> getNestedValue(obj, path)]
    /\ op' = "getNestedValue"

NextPath == GetNestedValue \/ Return

SpecPath == Init /\ [][NextPath]_vars

\* invertMapping(mapping)
Invert ==
    /\ op = "idle"
    /\ \E m \in MappingTrees(MaxDepth, "t") :
          /\ arg' = [mapping |-> m]
          /\ res' = [inverted |-> invertMapping(m)]
    /\ op' = "invert"

NextInvert == Invert \/ Return

SpecInvert == Init /\ [][NextInvert]_vars

NextRoundTrip == Normalize \/ Denormalize \/ Return

SpecRoundTrip == Init /\ [][NextRoundTrip]_vars

NextPatch == BuildPatch \/ DiffForms \/ DenormalizeChanges \/ Return

SpecPatch == Init /\ [][NextPatch]_vars

\* getChangedPaths(original, current)
GetChangedPaths ==
    /\ op = "idle"
    /\ \E o \in DiffOriginals, c \in DiffCurrents :
         \E same \in Sames(o, c) :
          /\ arg' = [original |-> o, current |-> c, same |-> same]
          /\ res' = [paths |-> getChangedPaths(o, c, same)]
    /\ op' = "getChangedPaths"

NextDiff == Diff \/ GetChangedPaths \/ Return

SpecDiff == Init /\ [][NextDiff]_vars

----------------------------------------------------------------------------
(* What the properties speak of *)

RECURSIVE StructEq(_, _)

\* structural equality of two value trees, whatever the order of the keys
StructEq(a, b) ==
    CASE a.t = "obj" /\ b.t = "obj" ->
            /\ {a.kv[j].k : j \in 1..Len(a.kv)} = {b.kv[j].k : j \in 1..Len(b.kv)}
            /\ \A j \in 1..Len(a.kv) : StructEq(a.kv[j].v, Get(b, a.kv[j].k))
      [] a.t = "arr" /\ b.t = "arr" ->
            /\ Len(a.xs) = Len(b.xs)
            /\ \A j \in 1..Len(a.xs) : StructEq(a.xs[j], b.xs[j])
      [] OTHER -> Rd(a) = Rd(b)

RECURSIVE MappedLeaves(_, _)

\* the string leaves of a mapping tree: [src |-> the keys from the root to the
\* leaf, tgt |-> the target name]
MappedLeaves(tree, prefix) ==
    UNION {LET e == tree.kv[j]
           IN  IF e.v.t = "str" THEN {[src |-> prefix \o e.k, tgt |-> e.v.s]}
               ELSE IF e.v.t = "obj" THEN MappedLeaves(e.v, prefix \o e.k)
               ELSE {} : j \in 1..Len(tree.kv)}

Leaves(mapping) == MappedLeaves(mapping, <<>>)

\* the values a path segment leads to from `tree`: under the key that is the
\* segment's text, and under the key name[i1].. read as indices into a sequence
RECURSIVE AtIndices(_, _)
AtIndices(v, idxs) ==
    IF idxs = <<>> THEN {v}
    ELSE IF v.t = "arr" /\ Head(idxs) + 1 <= Len(v.xs) /\ v.xs[Head(idxs) + 1].t # "hole"
    THEN AtIndices(v.xs[Head(idxs) + 1], Tail(idxs))
    ELSE {}

Under(tree, sg) ==
    (IF Has(tree, <<sg>>) THEN {Get(tree, <<sg>>)} ELSE {})
    \cup (IF sg.i # <<>> /\ Has(tree, K(sg.n))
          THEN AtIndices(Get(tree, K(sg.n)), sg.i) ELSE {})

RECURSIVE ValuesAt(_, _)

\* the values `tree` holds at `path` as own entries (an entry may hold undefined)
ValuesAt(tree, path) ==
    IF path = <<>> THEN {tree}
    ELSE UNION {ValuesAt(sub, Tail(path)) : sub \in Under(tree, Head(path))}

EntryAt(tree, path) == ValuesAt(tree, path) # {}

RECURSIVE LeafPaths(_, _)

\* the paths of a record's values that are not records with keys
LeafPaths(tree, prefix) ==
    UNION {LET e == tree.kv[j]
           IN  IF e.v.t = "obj" /\ Len(e.v.kv) > 0 THEN LeafPaths(e.v, prefix \o e.k)
               ELSE {prefix \o e.k} : j \in 1..Len(tree.kv)}

IsPrefix(p, q) == Len(p) <= Len(q) /\ SubSeq(q, 1, Len(p)) = p

\* a mapped field, by its leaf, differs between the forms of a buildPatch call
FieldDiffers(lf) ==
    ~StructEq(getNestedValue(arg.initial, lf.tgt), getNestedValue(arg.current, lf.tgt))

\* the path of key under the record at path, and of index idx of the sequence
\* at path; the root is the empty string
PathOfKey(path, key) == IF path = K("") THEN key ELSE path \o key

PathOfItem(path, idx) ==
    SubSeq(path, 1, Len(path) - 1)
        \o <<[n |-> path[Len(path)].n, i |-> path[Len(path)].i \o <<idx>>]>>

FieldPresent(lf) == getNestedValue(arg.current, lf.tgt) # Undef

----------------------------------------------------------------------------
(* Round trip *)

\* C1: denormalize(normalize(x, M), M) holds at every mapped source path the
\* value x holds there, for mapping trees of any nesting depth, with type
\* coercion off and no transforms or defaults.
RoundTripReproducesSource ==
    (op = "denormalize" /\ ~arg.typeCoercion) =>
        \A lf \in Leaves(arg.mapping) :
            getNestedValue(res.payload, lf.src) = getNestedValue(arg.x, lf.src)

----------------------------------------------------------------------------
(* buildPatch *)

\* C2: a mapped target field whose value in current is present and differs from
\* its value in initial makes buildPatch return a payload, not the sentinel,
\* with an entry at the field's source path.
PatchCarriesEveryMappedChange ==
    (op = "buildPatch" /\ arg.config.validator = "none") =>
        \A lf \in Leaves(arg.config.apiToForm) :
            (FieldPresent(lf) /\ FieldDiffers(lf)) =>
                /\ res.patch.ret # Null
                /\ EntryAt(res.patch.ret, lf.src)

\* C3: every source path present in the buildPatch payload is the source path
\* of a mapped target field whose value differs between initial and current,
\* and a mapped field with the same value in both is not in the payload.
PatchHoldsOnlyMappedChanges ==
    (op = "buildPatch" /\ res.patch.ret.t = "obj") =>
        /\ \A p \in LeafPaths(res.patch.ret, <<>>) :
              \E lf \in Leaves(arg.config.apiToForm) :
                  IsPrefix(lf.src, p) /\ FieldDiffers(lf)
        /\ \A lf \in Leaves(arg.config.apiToForm) :
              ~FieldDiffers(lf) => ~EntryAt(res.patch.ret, lf.src)

\* C4: whenever buildPatch returns a payload, handle.denormalize(handle.diff(
\* initial, current)) is that payload, for every setting of the handle's
\* compareArrays and omitNull options.
DenormalizedDiffIsPatch ==
    (op = "denormalizeChanges" /\ res.patch.ret.t = "obj") =>
        res.payload = res.patch.ret

\* the calls of a buildPatch workflow made with no validator and the default
\* options, as buildPatch(initial, current, mapping) is
PlainPatch == arg.config.validator = "none" /\ arg.config.options = MapperOptionDefaults

NoKeys(v) == v.t = "obj" /\ Len(v.kv) = 0

\* C5 as stated: buildPatch returns the sentinel exactly when diff(initial,
\* current) is the empty change tree.
PatchSentinelIffNoChanges ==
    (op = "denormalizeChanges" /\ PlainPatch) =>
        ((res.patch.ret = Null) <=> (res.changes = EmptyObj))

\* C5 as amended: buildPatch returns the sentinel exactly when the two forms
\* have the same JSON text or the change tree denormalizes to a payload with no
\* key, so whenever the change tree is empty, and also when its only entries
\* are removed keys or unmapped fields.
PatchSentinelIffEmptyPayload ==
    (op = "denormalizeChanges" /\ PlainPatch) =>
        /\ (res.changes = EmptyObj) => (res.patch.ret = Null)
        /\ (res.patch.ret = Null) <=>
              (isEqual(arg.initial, arg.current) \/ NoKeys(res.payload))

\* a change tree with an entry for which buildPatch returned the sentinel
PatchSentinelOnUnmappedChange ==
    /\ op = "denormalizeChanges" /\ PlainPatch
    /\ res.changes # EmptyObj
    /\ ~isEqual(arg.initial, arg.current)
    /\ res.patch.ret = Null

\* C6: for y structurally equal to x, buildPatch(x, y) returns the sentinel
\* without diffing and without running the validator.
PatchOfEqualFormsIsSentinel ==
    (op = "buildPatch" /\ (arg.same \/ StructEq(arg.initial, arg.current))) =>
        /\ res.patch.ret = Null
        /\ res.patch.steps = <<>>

----------------------------------------------------------------------------
(* diff *)

\* C7: diff(x, x) is the empty change tree, and so is diff(x, y) for every deep
\* copy y of x, whatever the order of y's record keys.
DiffOfEqualIsEmpty ==
    (op = "diff" /\ arg.options.compareArrays
        /\ (arg.same \/ StructEq(arg.original, arg.current))) =>
        res.changes = EmptyObj


\* the change tree holds undefined as an own entry at path
RemovalAt(changes, path) == Undef \in ValuesAt(changes, path)

RECURSIVE RemovalsRecorded(_, _, _)

\* wherever the traversal of diff compares two records (oldVal and newVal at
\* path), every key of oldVal that newVal lacks is an entry of the change tree
\* holding undefined
RemovalsRecorded(oldVal, newVal, path) ==
    IF path \in arg.options.ignoreFields THEN TRUE
    ELSE IF oldVal.t = "obj" /\ newVal.t = "obj"
    THEN /\ \A j \in 1..Len(oldVal.kv) :
               ~Has(newVal, oldVal.kv[j].k) =>
                   RemovalAt(res.changes, PathOfKey(path, oldVal.kv[j].k))
         /\ \A j \in 1..Len(newVal.kv) :
               RemovalsRecorded(Get(oldVal, newVal.kv[j].k), newVal.kv[j].v,
                                PathOfKey(path, newVal.kv[j].k))
    ELSE IF oldVal.t = "arr" /\ newVal.t = "arr" /\ arg.options.compareArrays
            /\ Len(oldVal.xs) = Len(newVal.xs)
    THEN \A idx \in 0..(Len(newVal.xs) - 1) :
            RemovalsRecorded(ArrGet(oldVal, idx), ArrGet(newVal, idx),
                             PathOfItem(path, idx))
    ELSE TRUE

\* C8: when diff compares two records at a path, every key of original that
\* current lacks is an own key of the change tree at that path, holding the
\* absence marker, at any nesting depth.
RemovalsAreRecorded ==
    (op = "diff" /\ ~arg.same) =>
        RemovalsRecorded(arg.original, arg.current, K(""))

\* a key removed two records deep, and one removed from a record in a sequence
NestedRemovalRecorded ==
    /\ op = "diff" /\ ~arg.same
    /\ \/ /\ Has(getNestedValue(arg.original, <<Seg("a"), Seg("c")>>), K("d"))
          /\ getNestedValue(arg.current, <<Seg("a"), Seg("c")>>) = EmptyObj
          /\ RemovalAt(res.changes, <<Seg("a"), Seg("c"), Seg("d")>>)
       \/ /\ arg.original.t = "obj" /\ Get(arg.original, K("a")).t = "arr"
          /\ Has(ArrGet(Get(arg.original, K("a")), 0), K("d"))
          /\ Get(arg.current, K("a")) = Arr(<<Obj(<<EntryC>>)>>)
          /\ RemovalAt(res.changes, <<SegIdx(Seg("a"), 0), Seg("d")>>)

\* C9: the change tree has no entry at a path listed in ignoreFields, whether
\* the value there was changed, added or removed.
IgnoredPathsHaveNoEntry ==
    op = "diff" => \A p \in arg.options.ignoreFields : ~EntryAt(res.changes, p)

RECURSIVE LengthChangesReplaced(_, _, _)

\* the keys of the record that holds the entry at path
SiblingKeys(changes, path) ==
    UNION {{v.kv[j].k : j \in 1..Len(Ents(v))} :
              v \in ValuesAt(changes, SubSeq(path, 1, Len(path) - 1))}

\* wherever the traversal of diff meets two sequences of different lengths
\* (oldVal and newVal at path), the change tree holds newVal at path and no
\* entry for an index of it
LengthChangesReplaced(oldVal, newVal, path) ==
    IF path \in arg.options.ignoreFields THEN TRUE
    ELSE IF oldVal.t = "obj" /\ newVal.t = "obj"
    THEN \A j \in 1..Len(newVal.kv) :
            LengthChangesReplaced(Get(oldVal, newVal.kv[j].k), newVal.kv[j].v,
                                  PathOfKey(path, newVal.kv[j].k))
    ELSE IF oldVal.t = "arr" /\ newVal.t = "arr"
    THEN IF Len(oldVal.xs) # Len(newVal.xs)
         THEN /\ ValuesAt(res.changes, path) = {newVal}
              /\ \A k \in SiblingKeys(res.changes, path) :
                    ~(Len(k) = 1 /\ k[1].n = path[Len(path)].n /\ k[1].i # <<>>)
         ELSE arg.options.compareArrays =>
                 \A idx \in 0..(Len(newVal.xs) - 1) :
                    LengthChangesReplaced(ArrGet(oldVal, idx), ArrGet(newVal, idx),
                                          PathOfItem(path, idx))
    ELSE TRUE

\* C10: two sequences of different lengths at a path put the whole current
\* sequence in the change tree at that path and no per-index entry, for either
\* setting of compareArrays.
LengthChangeReplacesSequence ==
    (op = "diff" /\ ~arg.same) =>
        LengthChangesReplaced(arg.original, arg.current, K(""))

\* a sequence that grew, at the top and inside a record, under both settings
GrownSequenceReplaced ==
    /\ op = "diff" /\ ~arg.options.compareArrays
    /\ getNestedValue(arg.original, <<Seg("a"), Seg("c")>>) = Arr(<<Num(1)>>)
    /\ getNestedValue(arg.current, <<Seg("a"), Seg("c")>>) = Arr(<<Num(1), Num(2)>>)
    /\ getNestedValue(res.changes, <<Seg("a"), Seg("c")>>) = Arr(<<Num(1), Num(2)>>)

----------------------------------------------------------------------------
(* invertMapping *)

\* C11: for every string leaf sourceKey -> targetName under the path prefix P,
\* at any depth, invertMapping's result maps targetName to the dotted path
\* P.sourceKey, and the result has one entry per leaf and no other, each a string.
InvertMapsEveryLeafToItsPath ==
    op = "invert" =>
        /\ \A lf \in Leaves(arg.mapping) :
              Get(res.inverted, lf.tgt) = Str(lf.src)
        /\ Len(res.inverted.kv) = Cardinality(Leaves(arg.mapping))
        /\ \A j \in 1..Len(res.inverted.kv) : res.inverted.kv[j].v.t = "str"

----------------------------------------------------------------------------
(* normalize *)

RECURSIVE OnlyRecordsAndLeaves(_)

\* a mapping tree built of string leaves and nested records
OnlyRecordsAndLeaves(tree) ==
    \A j \in 1..Len(tree.kv) :
        \/ tree.kv[j].v.t = "str"
        \/ tree.kv[j].v.t = "obj" /\ OnlyRecordsAndLeaves(tree.kv[j].v)

\* the present value of the source tree at a leaf's source path, if any
PresentAt(tree, path) == {v \in ValuesAt(tree, path) : v # Undef}

\* C12: with type coercion off and no transform, a present value v at the full
\* source path of a string leaf, at any depth, is at the leaf's target path in
\* normalize's output, and the output has no key for an enclosing source
\* record: its keys are those of the targets and of the defaults.
PresentLeavesReachTheirTarget ==
    (op = "normalizeCall" /\ ~arg.typeCoercion /\ OnlyRecordsAndLeaves(arg.mapping)) =>
        /\ \A lf \in Leaves(arg.mapping) :
              \A v \in PresentAt(arg.x, lf.src) : ValuesAt(res.form, lf.tgt) = {v}
        /\ \A j \in 1..Len(res.form.kv) :
              \/ \E lf \in Leaves(arg.mapping) : res.form.kv[j].k = <<Head(lf.tgt)>>
              \/ Has(arg.defaultValues, res.form.kv[j].k)

\* a present value under MaxDepth - 1 nested records, flattened into the form
DeepLeafReachesItsTarget ==
    /\ op = "normalizeCall" /\ ~arg.typeCoercion
    /\ \E lf \in Leaves(arg.mapping) :
          /\ Len(lf.src) = MaxDepth
          /\ PresentAt(arg.x, lf.src) = {Str(K("1"))}
          /\ Get(res.form, lf.tgt) = Str(K("1"))

\* C13: a string leaf whose source value is absent (a missing key, or a
\* non-record where the enclosing record is expected) leaves the default at the
\* target path; a present source value, null included, replaces the default.
AbsentLeavesKeepDefaults ==
    op = "normalizeCall" =>
        \A lf \in Leaves(arg.mapping) :
            /\ PresentAt(arg.x, lf.src) = {} =>
                  ValuesAt(res.form, lf.tgt) = ValuesAt(arg.defaultValues, lf.tgt)
            /\ \A v \in PresentAt(arg.x, lf.src) :
                  (~arg.typeCoercion \/ v.t # "str") => ValuesAt(res.form, lf.tgt) = {v}

\* a default kept under a scalar found where a record is expected, next to a
\* default that a null source value replaced
DefaultKeptUnderBrokenSource ==
    /\ op = "normalizeCall"
    /\ Get(arg.defaultValues, K("email")) = Str(K("none"))
    /\ \E lf \in Leaves(arg.mapping) :
          /\ Len(lf.src) > 1 /\ lf.tgt = K("email")
          /\ Get(arg.x, <<Head(lf.src)>>) = Num(1)
    /\ Get(arg.x, K("user_name")) = Null
    /\ Get(res.form, K("email")) = Str(K("none"))
    /\ Get(res.form, K("username")) = Null

\* the first element mapping of an array-form leaf
ElementTree(mapping, key) == ArrGet(Get(mapping, key), 0)

\* C14: for an array-form leaf key -> [elementTree] and a source sequence of
\* records, the output at key is a sequence of the same length whose i-th
\* element holds the mapped fields of the i-th source record, and the output
\* has no other key because of the elements; a non-sequence source leaves the
\* field absent.
ArrayLeafMapsEachElement ==
    (op = "normalizeCall" /\ ~arg.typeCoercion /\ IsArray(Get(arg.mapping, K("items")))) =>
        LET items == Get(arg.x, K("items"))
            out == Get(res.form, K("items"))
        IN  /\ ~IsArray(items) => ~Has(res.form, K("items"))
            /\ (IsArray(items) /\ \A n \in 1..Len(items.xs) : items.xs[n].t = "obj") =>
                  /\ IsArray(out) /\ Len(out.xs) = Len(items.xs)
                  /\ \A n \in 1..Len(items.xs) :
                        \A lf \in Leaves(ElementTree(arg.mapping, K("items"))) :
                            \A v \in PresentAt(items.xs[n], lf.src) :
                                ValuesAt(out.xs[n], lf.tgt) = {v}
                  /\ \A j \in 1..Len(res.form.kv) :
                        \/ res.form.kv[j].k \in {K("items"), K("username")}
                        \/ Has(arg.defaultValues, res.form.kv[j].k)

\* the texts that read as a finite number, spaces around them aside
NumericTexts == {K(ToString(n)) : n \in 0..9} \cup {K(" " \o ToString(n)) : n \in 0..9}

NumberRead(s) == CHOOSE n \in 0..9 : s \in {K(ToString(n)), K(" " \o ToString(n))}

\* what the rules of coercion, tried in order, make of a value
Coerced(v) ==
    IF v.t # "str" THEN v
    ELSE IF v.s \in NumericTexts THEN Num(NumberRead(v.s))
    ELSE IF v.s = K("true") THEN Bool(TRUE)
    ELSE IF v.s = K("false") THEN Bool(FALSE)
    ELSE IF \E ms \in 1..9 : v.s = IsoString(ms)
    THEN Date(CHOOSE ms \in 1..9 : v.s = IsoString(ms))
    ELSE v

\* C15: with typeCoercion on, a present string value is replaced by what the
\* first matching rule gives (numeric string, then 'true' or 'false', then
\* date-time string, else the string itself) and a value that is no string is
\* unchanged; with typeCoercion off every value is unchanged.
CoercionFollowsTheRules ==
    op = "normalizeCall" =>
        \A lf \in Leaves(arg.mapping) :
            \A v \in PresentAt(arg.x, lf.src) :
                ValuesAt(res.form, lf.tgt) =
                    {IF arg.typeCoercion THEN Coerced(v) ELSE v}

\* strings of each rule coerced in one call, and a string no rule matches
EachRuleCoerces ==
    /\ op = "normalizeCall" /\ arg.typeCoercion
    /\ \E lf \in Leaves(arg.mapping) :
          /\ lf.tgt = K("email")
          /\ PresentAt(arg.x, lf.src) = {Str(IsoString(1))}
    /\ Get(arg.x, K("user_name")) \in {Str(K("true")), Str(K(" 1")), Str(K("Infinity"))}
    /\ Get(res.form, K("email")) = Date(1)
    /\ Get(res.form, K("username")) \in {Bool(TRUE), Num(1), Str(K("Infinity"))}

----------------------------------------------------------------------------
(* buildPost and the calls that must not raise *)

\* the value buildPost is to send for a target: the form's when the form has
\* the key, else the default's, else undefined
PostValueOf(tgt) ==
    IF Has(arg.formData, tgt) THEN Get(arg.formData, tgt)
    ELSE IF Has(arg.defaults, tgt) THEN Get(arg.defaults, tgt)
    ELSE Undef

\* C16: for a mapping whose leaves are at most one record deep, buildPost's
\* payload has an own entry at the source path of every mapped leaf, holding
\* the form's value when the form has the target key, else the default's, else
\* the absence marker.
PostHoldsEveryMappedField ==
    (op = "buildPost" /\ \A lf \in Leaves(arg.mapping) : Len(lf.src) <= 2) =>
        /\ ~IsThrow(res.payload)
        /\ \A lf \in Leaves(arg.mapping) :
              ValuesAt(res.payload, lf.src) = {PostValueOf(lf.tgt)}

\* a nested field that neither the form nor the defaults hold, sent as an own
\* entry with the absence marker, next to a null the form holds
PostSendsAbsentField ==
    /\ op = "buildPost"
    /\ ~Has(arg.formData, K("email")) /\ ~Has(arg.defaults, K("email"))
    /\ Get(arg.formData, K("username")) = Null
    /\ ~IsThrow(res.payload)
    /\ \E lf \in Leaves(arg.mapping) :
          /\ lf.tgt = K("email") /\ Len(lf.src) = 2
          /\ ValuesAt(res.payload, lf.src) = {Undef}
    /\ ValuesAt(res.payload, K("user_name")) = {Null}

\* C17: denormalize and the builders of full payloads without a validator
\* never raise, for any form and any mapping tree of string leaves and nested
\* records of any depth.
BuildersNeverRaise ==
    op \in {"buildPost", "buildPut", "denormalizeForm"} => ~IsThrow(res.payload)

----------------------------------------------------------------------------
(* Handles *)

\* C18: after construction the handle's configuration never changes: whatever
\* was called on the handle and whatever the caller assigned into the config
\* object, the mapping tree or the defaults tree since, normalize and
\* denormalize return what they would have returned right after construction.
HandleKeepsItsConfiguration ==
    /\ op = "handleNormalize" => res.out = MapperNormalize(arg.first, res.input)
    /\ op = "handleDenormalize" => res.out = MapperDenormalize(arg.first, res.input)

\* C19: in the clone's configuration, a key of the original's defaults or
\* options that the overrides do not name has the original's value.
CloneKeepsUnnamedKeys ==
    op = "clone" =>
        LET orig == HandleView(arg.world)
            ov == res.overrides
        IN  /\ \A j \in 1..Len(orig.defaults.kv) :
                  ("defaults" \notin DOMAIN ov \/ ~Has(ov.defaults, orig.defaults.kv[j].k)) =>
                      Get(res.clone.defaults, orig.defaults.kv[j].k)
                          = Get(orig.defaults, orig.defaults.kv[j].k)
            /\ \A n \in DOMAIN orig.options :
                  ("options" \notin DOMAIN ov \/ n \notin DOMAIN ov.options) =>
                      res.clone.options[n] = orig.options[n]

\* C20: an assignment, at any depth, into an object that getConfig returned
\* leaves every field of the handle as it was, so that no later call on the
\* handle, getConfig included, returns anything else because of it.
ExportedConfigIsIsolated ==
    [][op' = "mutateExported" => HandleView(arg'.world) = HandleView(arg.world)]_vars

\* the defaults that getConfig returned, changed inside a nested record, with
\* the handle's defaults as they were at construction
ExportedDefaultsMutated ==
    /\ op = "mutateExported"
    /\ arg.world.heap.xDefaults.t = "obj"
    /\ Get(Get(arg.world.heap.xDefaults, K("profile")), K("name")) = Str(K("changed"))
    /\ Get(Get(HandleView(arg.world).defaults, K("profile")), K("name"))
           = Str(K("anonymous"))

----------------------------------------------------------------------------
(* diff of sequences of one length *)

\* the indices at which two sequences of one length differ
DifferingIndices(x, y) == {i \in 0..(Len(x.xs) - 1) : ~StructEq(ArrGet(x, i), ArrGet(y, i))}

\* C22: with compareArrays on, when the sequences under the field a have one
\* length and differ at one index only, the change tree holds under the key a
\* a sequence with an entry at that index and none at the other indices, and
\* no key of the change tree is written with a bracketed index.
ElementChangeIsUnderItsField ==
    (op = "diff" /\ ~arg.same /\ arg.options.compareArrays /\ arg.options.ignoreFields = {}
        /\ IsArray(Get(arg.original, K("a"))) /\ IsArray(Get(arg.current, K("a")))
        /\ Len(Get(arg.original, K("a")).xs) = Len(Get(arg.current, K("a")).xs)
        /\ Cardinality(DifferingIndices(Get(arg.original, K("a")), Get(arg.current, K("a")))) = 1) =>
        /\ IsArray(Get(res.changes, K("a")))
        /\ \A i \in 0..(Len(Get(arg.current, K("a")).xs) - 1) :
              (ArrGet(Get(res.changes, K("a")), i) # Undef)
                  <=> (i \in DifferingIndices(Get(arg.original, K("a")), Get(arg.current, K("a"))))
        /\ \A j \in 1..Len(res.changes.kv) : res.changes.kv[j].k[1].i = <<>>

----------------------------------------------------------------------------
(* getNestedValue *)

RECURSIVE ThroughRecords(_, _)

\* the value at path when every value on the way is a record that holds the
\* next segment as a key, and undefined otherwise
ThroughRecords(tree, path) ==
    IF path = <<>> THEN tree
    ELSE IF Has(tree, <<Head(path)>>)
    THEN ThroughRecords(Get(tree, <<Head(path)>>), Tail(path))
    ELSE Undef

\* C21: getNestedValue returns undefined when a segment of the path is missing
\* or a value on the way is not a record (a string and a sequence included),
\* and the value stored at the path otherwise.
PathReadsThroughRecordsOnly ==
    op = "getNestedValue" => res.value = ThroughRecords(arg.obj, arg.path)

----------------------------------------------------------------------------
(* normalize across the calls on one handle *)

\* C23: in a session of calls on one handle, with no assignment by the
\* caller, every normalize call returns what the same call returns right
\* after construction, and the handle's defaults stay as they were at
\* construction.
NormalizeLeavesNoTrace ==
    op \notin {"idle", "construct"} =>
        /\ HandleView(arg.world).defaults = arg.first.defaults
        /\ op = "handleNormalize" => res.out = MapperNormalize(arg.first, res.input)

----------------------------------------------------------------------------
(* denormalize: omission and transforms *)

\* C26: for an inverted mapping whose entries are all paths, denormalize leaves
\* out the source path of a field whose value read is absent with
\* omitUndefined on, or null with omitNull on, and does not call its
\* transform; for every other field it calls the transform, if there is one,
\* and the payload holds what it answered (undefined included) at the source
\* path.
OmissionIsDecidedBeforeTransform ==
    (op = "denormalizeForm"
        /\ \A j \in 1..Len(invertMapping(arg.mapping).kv) :
               invertMapping(arg.mapping).kv[j].v.t = "str") =>
        \A j \in 1..Len(invertMapping(arg.mapping).kv) :
            LET formKey == invertMapping(arg.mapping).kv[j].k
                apiPath == invertMapping(arg.mapping).kv[j].v.s
                value == getNestedValue(arg.formData, formKey)
                hasTransform == formKey \in DOMAIN arg.options.transform
                called == \E n \in 1..Len(res.calls) : res.calls[n] = formKey
            IN  IF (arg.options.omitUndefined /\ value = Undef)
                   \/ (arg.options.omitNull /\ value = Null)
                THEN ~EntryAt(res.payload, apiPath) /\ ~called
                ELSE /\ called <=> hasTransform
                     /\ ValuesAt(res.payload, apiPath) =
                            {IF hasTransform
                             THEN ApplyTransform(arg.options.transform[formKey], value,
                                                 arg.formData)
                             ELSE value}

\* a null field left out with its transform not called, next to a field whose
\* transform answered undefined and whose key is written
UndefinedWrittenNullOmitted ==
    /\ op = "denormalizeForm"
    /\ arg.options.omitNull /\ arg.options.omitUndefined
    /\ arg.options.transform = [k \in {K("username")} |-> "toUndef"]
    /\ Get(arg.formData, K("username")) = Str(K("x"))
    /\ Has(arg.formData, K("email")) /\ Get(arg.formData, K("email")) = Null
    /\ arg.mapping = RoundTripMapping(2)
    /\ res.payload = Obj(<<E(K("user_name"), Undef)>>)
    /\ res.calls = <<K("username")>>

----------------------------------------------------------------------------
(* buildPartial and the explicit inverse *)

\* the record of the named top-level fields that formData holds
Picked(formData, fields) ==
    Obj(SelectSeq(formData.kv, LAMBDA e : \E n \in 1..Len(fields) : fields[n] = e.k))

\* C27: handle.buildPartial(formData, fields) is handle.denormalize of the
\* record of the named top-level fields present in formData, under the
\* handle's own omitUndefined and omitNull.
PartialIsDenormalizeOfPicked ==
    op = "handleBuildPartial" =>
        res.out = MapperDenormalize(HandleView(arg.world), Picked(res.input, res.fields))

\* C28: on a handle constructed with an explicit inverse mapping, denormalize,
\* buildPost and buildPatch hold each target field that the form holds at the
\* source path the explicit inverse gives for it.
ExplicitInverseIsUsed ==
    (op \in {"handleDenormalize", "handleBuild"}
        /\ HandleView(arg.world).formToApiMapping
               # invertMapping(HandleView(arg.world).apiToFormMapping)) =>
        \A j \in 1..Len(HandleView(arg.world).formToApiMapping.kv) :
            LET tgt == HandleView(arg.world).formToApiMapping.kv[j].k
                src == HandleView(arg.world).formToApiMapping.kv[j].v.s
                value == getNestedValue(res.input, tgt)
            IN  (value \notin {Undef, Null}) =>
                    IF op = "handleDenormalize" THEN ValuesAt(res.out, src) = {value}
                    ELSE /\ ValuesAt(res.post, src) = {value}
                         /\ ValuesAt(res.patch, src) = {value}

----------------------------------------------------------------------------
(* buildPatch and the validator *)

\* C25: with a validator, buildPatch on forms that are not structurally equal
\* calls the validator once, on the change tree of the two forms, before it
\* denormalizes; when the validator answers invalid the call fails with the
\* messages joined and returns no payload.
ValidatorRunsOnceOnTheChanges ==
    (op = "buildPatch" /\ arg.config.validator # "none"
        /\ ~StructEq(arg.initial, arg.current)) =>
        LET changes == diff(arg.initial, arg.current, DiffDefaults, arg.same)
            ran == res.patch.steps
        IN  /\ Cardinality({n \in 1..Len(ran) : ran[n].step = "validation"}) = 1
            /\ \A n \in 1..Len(ran) :
                  ran[n].step = "validation" =>
                      /\ ran[n].data = changes
                      /\ \A k \in 1..n : ran[k].step # "denormalize"
            /\ ~Validate(arg.config.validator, changes).valid =>
                  res.patch.ret = ValidationFailed(Validate(arg.config.validator, changes))

----------------------------------------------------------------------------
(* getChangedPaths *)

\* C29: when the sequences under the field a differ, getChangedPaths lists
\* the path a once and no path with an index; and when two records at one
\* index differ, it also lists a path inside the sequence.
ChangedSequenceListedWithInterior ==
    (op = "getChangedPaths" /\ ~arg.same
        /\ IsArray(Get(arg.original, K("a"))) /\ IsArray(Get(arg.current, K("a")))
        /\ ~StructEq(Get(arg.original, K("a")), Get(arg.current, K("a")))) =>
        /\ Cardinality({n \in 1..Len(res.paths) : res.paths[n] = K("a")}) = 1
        /\ \A n \in 1..Len(res.paths) :
              \A k \in 1..Len(res.paths[n]) : res.paths[n][k].i = <<>>
        /\ (\E i \in 0..(Len(Get(arg.current, K("a")).xs) - 1) :
               /\ ArrGet(Get(arg.original, K("a")), i).t = "obj"
               /\ ArrGet(Get(arg.current, K("a")), i).t = "obj"
               /\ ~StructEq(ArrGet(Get(arg.original, K("a")), i),
                            ArrGet(Get(arg.current, K("a")), i))) =>
              \E n \in 1..Len(res.paths) :
                  Len(res.paths[n]) > 1 /\ res.paths[n][1] = Seg("a")

\* C30: getChangedPaths lists no path exactly when diff with its default
\* options has no entry.
ChangedPathsAgreeWithDiff ==
    op = "getChangedPaths" =>
        ((res.paths = <<>>)
            <=> (diff(arg.original, arg.current, DiffDefaults, arg.same) = EmptyObj))

----------------------------------------------------------------------------
(* what a returned tree shares with the inputs *)

\* C24: the payload that denormalize returns holds no record or sequence of
\* the form: an assignment into the returned payload leaves the form as it
\* was.
PayloadSharesNothingWithForm ==
    [][op' = "mutatePayload" => arg'.formData = arg.formData]_vars

====
